---- MODULE Spec2Model ----
(***************************************************************************)
(* PnLCalculator (src/PnLCalculator.py): thirteen PnL computations over    *)
(* three pandas DataFrames (trades, positions, market_data), a funding     *)
(* rate and a dict of Greek sensitivities.                                 *)
(*                                                                         *)
(* A DataFrame is [index, data]: index is the sequence of row labels and   *)
(* data maps each column name it carries to the sequence of its cells.     *)
(* A Series is [index, values]; a cell of a Series is <<v>> or NaN (<<>>). *)
(* Numbers are integers: every input drawn is integer-valued, and a result  *)
(* is the exact rational num/den, so that the factor 0.5 of the gamma term *)
(* is computed, not dropped. Fractional inputs are outside the model.      *)
(***************************************************************************)
EXTENDS Integers, Sequences, FiniteSets

VARIABLES trades, positions, market_data, funding_rate, greeks, ret, phase

entities == <<trades, positions, market_data, funding_rate, greeks>>
vars == <<trades, positions, market_data, funding_rate, greeks, ret, phase>>

\* ------------------------------------------------------------------ bounds

\* Rows per DataFrame.
MaxRows == 2
\* Columns (or dict keys) a supplied entity may lack at the same time.
MaxMissing == 1

\* Scalars a caller passes to an operation.
ArgVals == {-1, 0, 2}
\* Scalars a caller passes as adjustments, charges and second arguments.
ChargeVals == {-1, 2}
\* Cash-flow sequences a caller passes to cash_flow_pnl.
FlowSeqs == {<<>>, <<3>>, <<1, 2>>}
\* Funding rates and Greek sensitivities supplied at construction.
RateVals == {-1, 2}
GreekVals == {-1, 0, 1}

\* ------------------------------------------------------- pandas: the frame

TradeColumns == {"buy_price", "sell_price", "quantity", "transaction_cost"}
PositionColumns == {"quantity", "price_change", "notional"}
MarketColumns == {"current_price", "previous_price", "model_price",
                  "previous_model_price"}
GreekKeys == {"delta", "gamma", "vega"}

\* pandas' default RangeIndex: the labels 0 .. n-1.
DefaultIndex(n) == [i \in 1..n |-> i - 1]

\* pd.DataFrame of the rows (records), keeping the columns cols, labelled index.
Frame(index, cols, rows) ==
    [index |-> index,
     data |-> [c \in cols |-> [i \in 1..Len(rows) |-> rows[i][c]]]]

Columns(df) == DOMAIN df.data
NRows(df) == Len(df.index)

NaN == <<>>

\* df[c] for a column the frame carries.
GetItem(df, c) ==
    [index |-> df.index,
     values |-> [i \in 1..NRows(df) |-> <<df.data[c][i]>>]]

\* The rows of df at the positions in keep (df.iloc[...]), labels kept.
RECURSIVE SelectRows(_, _)
SelectRows(s, keep) ==
    IF s = <<>> THEN <<>>
    ELSE LET n == Len(s)
             front == SelectRows(SubSeq(s, 1, n - 1), keep)
         IN IF n \in keep THEN Append(front, s[n]) ELSE front

SubFrame(df, keep) ==
    [index |-> SelectRows(df.index, keep),
     data |-> [c \in Columns(df) |-> SelectRows(df.data[c], keep)]]

\* ------------------------------------------------- pandas: Series arithmetic

RECURSIVE SortSet(_)
SortSet(S) ==
    IF S = {} THEN <<>>
    ELSE LET m == CHOOSE x \in S : \A y \in S : x <= y
         IN <<m>> \o SortSet(S \ {m})

Labels(index) == {index[i] : i \in 1..Len(index)}

\* The positions of label l in an index, ascending.
LabelPositions(index, l) ==
    SelectSeq([i \in 1..Len(index) |-> i], LAMBDA i : index[i] = l)

\* Outer join of two indexes on one label: every pairing of its left and right
\* positions (0: the label is missing on that side).
JoinLabel(l, ia, ib) ==
    LET L == LabelPositions(ia, l)
        R == LabelPositions(ib, l)
    IN IF L = <<>> THEN [k \in 1..Len(R) |-> <<l, 0, R[k]>>]
       ELSE IF R = <<>> THEN [k \in 1..Len(L) |-> <<l, L[k], 0>>]
       ELSE [k \in 1..(Len(L) * Len(R)) |->
                <<l, L[((k - 1) \div Len(R)) + 1], R[((k - 1) % Len(R)) + 1]>>]

RECURSIVE JoinLabels(_, _, _)
JoinLabels(ls, ia, ib) ==
    IF ls = <<>> THEN <<>>
    ELSE JoinLabel(Head(ls), ia, ib) \o JoinLabels(Tail(ls), ia, ib)

\* Index.join(how="outer", return_indexers=True): <<label, left, right>> rows.
OuterJoin(ia, ib) == JoinLabels(SortSet(Labels(ia) \cup Labels(ib)), ia, ib)

\* A variant of Align that pairs the cells by position whatever the labels, up to
\* the longer Series.
Align_by_position(a, b) ==
    LET n == IF Len(a.index) >= Len(b.index) THEN Len(a.index) ELSE Len(b.index)
        idx == [k \in 1..n |-> k - 1]
    IN <<[index |-> idx,
          values |-> [k \in 1..n |-> IF k <= Len(a.values) THEN a.values[k] ELSE NaN]],
         [index |-> idx,
          values |-> [k \in 1..n |-> IF k <= Len(b.values) THEN b.values[k] ELSE NaN]]>>

\* Series.align: two Series on the same index. Equal indexes are left alone
\* (paired by position); otherwise both are reindexed on the outer join, with
\* NaN where a label is missing on one side.
Align(a, b) ==
    IF a.index = b.index THEN <<a, b>>
    ELSE LET j == OuterJoin(a.index, b.index)
             idx == [k \in 1..Len(j) |-> j[k][1]]
         IN <<[index |-> idx,
               values |-> [k \in 1..Len(j) |->
                   IF j[k][2] = 0 THEN NaN ELSE a.values[j[k][2]]]],
              [index |-> idx,
               values |-> [k \in 1..Len(j) |->
                   IF j[k][3] = 0 THEN NaN ELSE b.values[j[k][3]]]]>>

CellSub(x, y) == IF x = NaN \/ y = NaN THEN NaN ELSE <<x[1] - y[1]>>
CellMul(x, y) == IF x = NaN \/ y = NaN THEN NaN ELSE <<x[1] * y[1]>>

\* Series - Series and Series * Series: align, then cell by cell.
SeriesSub(a, b) ==
    LET al == Align(a, b)
    IN [index |-> al[1].index,
        values |-> [k \in 1..Len(al[1].index) |->
                        CellSub(al[1].values[k], al[2].values[k])]]

SeriesMul(a, b) ==
    LET al == Align(a, b)
    IN [index |-> al[1].index,
        values |-> [k \in 1..Len(al[1].index) |->
                        CellMul(al[1].values[k], al[2].values[k])]]

\* scalar * Series (and Series * scalar).
ScalarMul(k, s) ==
    [index |-> s.index,
     values |-> [i \in 1..Len(s.index) |-> CellMul(<<k>>, s.values[i])]]

\* Series.sum(): NaN cells are skipped, the empty sum is 0.
RECURSIVE SumCells(_)
SumCells(cells) ==
    IF cells = <<>> THEN 0
    ELSE (IF Head(cells) = NaN THEN 0 ELSE Head(cells)[1]) + SumCells(Tail(cells))

SeriesSum(s) == SumCells(s.values)

\* Python's sum() of a sequence of numbers.
RECURSIVE PySum(_)
PySum(xs) == IF xs = <<>> THEN 0 ELSE Head(xs) + PySum(Tail(xs))

\* ------------------------------------------------------------ results

\* A returned number num/den, or the exception raised.
Ok(n) == [err |-> "", num |-> n, den |-> 1]
Raise(e) == [err |-> e, num |-> 0, den |-> 1]
KeyError == Raise("KeyError")

\* ------------------------------------------------------------ the engine

PnLCalculator(t, p, m, rate, greek_sensitivities) ==
    [trades |-> t, positions |-> p, market_data |-> m,
     funding_rate |-> rate, greeks |-> greek_sensitivities]


\* Whether a frame (or dict) carries every column (key) of cs: reading one it
\* lacks raises KeyError.
HasColumns(df, cs) == cs \subseteq Columns(df)

\* A variant of clean_pnl that charges the transaction cost once per ledger (the
\* first record's) instead of once per record.
clean_pnl_cost_once(self) ==
    IF ~HasColumns(self.trades, TradeColumns) THEN KeyError
    ELSE LET t == self.trades
             gross == SeriesSum(SeriesMul(
                          SeriesSub(GetItem(t, "sell_price"), GetItem(t, "buy_price")),
                          GetItem(t, "quantity")))
         IN Ok(gross - (IF NRows(t) = 0 THEN 0 ELSE t.data["transaction_cost"][1]))

clean_pnl(self) ==
    IF ~HasColumns(self.trades, TradeColumns) THEN KeyError
    ELSE LET t == self.trades
         IN Ok(SeriesSum(SeriesSub(
                SeriesMul(SeriesSub(GetItem(t, "sell_price"), GetItem(t, "buy_price")),
                          GetItem(t, "quantity")),
                GetItem(t, "transaction_cost"))))

\* A variant of hypothetical_pnl that refuses an empty position book.
hypothetical_pnl_nonempty(self) ==
    IF ~HasColumns(self.positions, {"price_change", "quantity"}) THEN KeyError
    ELSE IF NRows(self.positions) = 0 THEN Raise("ValueError")
    ELSE LET p == self.positions
         IN Ok(SeriesSum(SeriesMul(GetItem(p, "price_change"), GetItem(p, "quantity"))))

\* A variant of hypothetical_pnl that checks the position book for all of its
\* columns before it computes.
hypothetical_pnl_validating(self) ==
    IF ~HasColumns(self.positions, PositionColumns) THEN KeyError
    ELSE LET p == self.positions
         IN Ok(SeriesSum(SeriesMul(GetItem(p, "price_change"), GetItem(p, "quantity"))))

hypothetical_pnl(self) ==
    IF ~HasColumns(self.positions, {"price_change", "quantity"}) THEN KeyError
    ELSE LET p == self.positions
         IN Ok(SeriesSum(SeriesMul(GetItem(p, "price_change"), GetItem(p, "quantity"))))

books_pnl(self) ==
    IF ~HasColumns(self.positions, {"price_change", "quantity"}) THEN KeyError
    ELSE LET p == self.positions
         IN Ok(SeriesSum(SeriesMul(GetItem(p, "price_change"), GetItem(p, "quantity"))))

\* A keyword argument (<<v>>), or its default when the caller leaves it out (<<>>).
Arg(kw, name, default) == IF kw[name] = <<>> THEN default ELSE kw[name][1]

\* A variant of gl_pnl that subtracts the provisions.
gl_pnl_less_provisions(self, kw) ==
    LET fx_revaluation == Arg(kw, "fx_revaluation", 0)
        provisions == Arg(kw, "provisions", 0)
        books == books_pnl(self)
    IN IF books.err # "" THEN books
       ELSE Ok(books.num + fx_revaluation - provisions)

\* A variant of gl_pnl that reuses what the last books_pnl call returned.
gl_pnl_cached(self, kw) ==
    LET fx_revaluation == Arg(kw, "fx_revaluation", 0)
        provisions == Arg(kw, "provisions", 0)
        books == IF ret.op = "books_pnl" THEN ret.result ELSE books_pnl(self)
    IN IF books.err # "" THEN books
       ELSE Ok(books.num + fx_revaluation + provisions)

gl_pnl(self, kw) ==
    LET fx_revaluation == Arg(kw, "fx_revaluation", 0)
        provisions == Arg(kw, "provisions", 0)
        books == books_pnl(self)
    IN IF books.err # "" THEN books
       ELSE Ok(books.num + fx_revaluation + provisions)

volcker_pnl(self, market_making_pnl, hedging_pnl, proprietary_pnl) ==
    Ok(market_making_pnl + hedging_pnl - proprietary_pnl)

\* A variant of finance_pnl that subtracts the overhead costs.
finance_pnl_less_costs(self, overhead_costs, capital_charges, allocations) ==
    LET clean == clean_pnl(self)
        hypothetical == hypothetical_pnl(self)
    IN IF clean.err # "" THEN clean
       ELSE IF hypothetical.err # "" THEN hypothetical
       ELSE Ok((clean.num + hypothetical.num)
               - overhead_costs + capital_charges + allocations)

finance_pnl(self, overhead_costs, capital_charges, allocations) ==
    LET clean == clean_pnl(self)
        hypothetical == hypothetical_pnl(self)
    IN IF clean.err # "" THEN clean
       ELSE IF hypothetical.err # "" THEN hypothetical
       ELSE Ok((clean.num + hypothetical.num)
               + overhead_costs + capital_charges + allocations)

funding_cost_pnl(self) ==
    IF ~HasColumns(self.positions, {"notional"}) THEN KeyError
    ELSE Ok(SeriesSum(ScalarMul(self.funding_rate,
                                GetItem(self.positions, "notional"))))

\* The denominator of the factor 0.5 of the gamma term.
GammaDen == 2

\* A variant of greek_pnl whose gamma term is linear in the price change.
greek_pnl_linear_gamma(self, price_change, volatility_change) ==
    IF ~(GreekKeys \subseteq DOMAIN self.greeks) THEN KeyError
    ELSE LET delta_num == GammaDen * (self.greeks["delta"] * price_change)
             gamma_num == self.greeks["gamma"] * price_change
             vega_num == GammaDen * (self.greeks["vega"] * volatility_change)
         IN [err |-> "", num |-> delta_num + gamma_num + vega_num, den |-> GammaDen]

\* delta*x + 0.5*gamma*x**2 + vega*v, as the exact rational num/GammaDen.
greek_pnl(self, price_change, volatility_change) ==
    IF ~(GreekKeys \subseteq DOMAIN self.greeks) THEN KeyError
    ELSE LET delta_num == GammaDen * (self.greeks["delta"] * price_change)
             gamma_num == self.greeks["gamma"] * (price_change * price_change)
             vega_num == GammaDen * (self.greeks["vega"] * volatility_change)
         IN [err |-> "", num |-> delta_num + gamma_num + vega_num, den |-> GammaDen]

carry_pnl(self, interest_rate_diff, holding_period) ==
    IF ~HasColumns(self.positions, {"notional"}) THEN KeyError
    ELSE Ok(SeriesSum(ScalarMul(holding_period,
                ScalarMul(interest_rate_diff, GetItem(self.positions, "notional")))))

cash_flow_pnl(self, cash_inflows, cash_outflows) ==
    Ok(PySum(cash_inflows) - PySum(cash_outflows))

\* A variant of mark_to_market_pnl on the bare arrays: rows pair by position, and
\* arrays of different lengths do not multiply.
mark_to_market_pnl_values(self) ==
    IF ~HasColumns(self.market_data, {"current_price", "previous_price"}) THEN KeyError
    ELSE IF ~HasColumns(self.positions, {"quantity"}) THEN KeyError
    ELSE IF NRows(self.market_data) # NRows(self.positions) THEN Raise("ValueError")
    ELSE LET m == self.market_data
         IN Ok(PySum([i \in 1..NRows(m) |->
                (m.data["current_price"][i] - m.data["previous_price"][i])
                    * self.positions.data["quantity"][i]]))

mark_to_market_pnl(self) ==
    IF ~HasColumns(self.market_data, {"current_price", "previous_price"}) THEN KeyError
    ELSE IF ~HasColumns(self.positions, {"quantity"}) THEN KeyError
    ELSE LET m == self.market_data
         IN Ok(SeriesSum(SeriesMul(
                SeriesSub(GetItem(m, "current_price"), GetItem(m, "previous_price")),
                GetItem(self.positions, "quantity"))))

mark_to_model_pnl(self) ==
    IF ~HasColumns(self.market_data, {"model_price", "previous_model_price"}) THEN KeyError
    ELSE IF ~HasColumns(self.positions, {"quantity"}) THEN KeyError
    ELSE LET m == self.market_data
         IN Ok(SeriesSum(SeriesMul(
                SeriesSub(GetItem(m, "model_price"), GetItem(m, "previous_model_price")),
                GetItem(self.positions, "quantity"))))

aggregate_greeks_pnl(self, price_change, volatility_change) ==
    IF ~(GreekKeys \subseteq DOMAIN self.greeks) THEN KeyError
    ELSE LET delta_num == GammaDen * (self.greeks["delta"] * price_change)
             gamma_num == self.greeks["gamma"] * (price_change * price_change)
             vega_num == GammaDen * (self.greeks["vega"] * volatility_change)
         IN [err |-> "", num |-> delta_num + gamma_num + vega_num, den |-> GammaDen]

\* ------------------------------------------------------------ calls

\* The engine as it stands: it holds references to the caller's objects.
Self == PnLCalculator(trades, positions, market_data, funding_rate, greeks)

\* What a call leaves behind: the operation, its arguments, what it returned.
Returned(op, args, r) == [op |-> op, args |-> args, parts |-> <<>>, result |-> r]

call_clean_pnl ==
    /\ ret' = Returned("clean_pnl", <<>>, clean_pnl(Self))
    /\ phase' = "returned"
    /\ UNCHANGED entities

\* A variant of the hypothetical_pnl call that multiplies in place, overwriting
\* the position book's quantity column.
call_hypothetical_pnl_inplace ==
    /\ ret' = Returned("hypothetical_pnl", <<>>, hypothetical_pnl(Self))
    /\ phase' = "returned"
    /\ positions' =
           IF HasColumns(positions, {"price_change", "quantity"})
           THEN [positions EXCEPT !.data["quantity"] =
                    [i \in 1..NRows(positions) |->
                        positions.data["price_change"][i] * positions.data["quantity"][i]]]
           ELSE positions
    /\ UNCHANGED <<trades, market_data, funding_rate, greeks>>

call_hypothetical_pnl ==
    /\ ret' = Returned("hypothetical_pnl", <<>>, hypothetical_pnl(Self))
    /\ phase' = "returned"
    /\ UNCHANGED entities

call_books_pnl ==
    /\ ret' = Returned("books_pnl", <<>>, books_pnl(Self))
    /\ phase' = "returned"
    /\ UNCHANGED entities

\* gl_pnl's arguments: each given (<<v>>) or left out (<<>>).
Given(S) == {<<>>} \cup {<<v>> : v \in S}
GlKwargs == [fx_revaluation : Given(ChargeVals), provisions : Given(ChargeVals)]

call_gl_pnl ==
    \E kw \in GlKwargs :
        /\ ret' = Returned("gl_pnl", kw, gl_pnl(Self, kw))
        /\ phase' = "returned"
        /\ UNCHANGED entities

call_volcker_pnl ==
    \E m \in ChargeVals, h \in ChargeVals, p \in ChargeVals :
        /\ ret' = Returned("volcker_pnl", <<m, h, p>>, volcker_pnl(Self, m, h, p))
        /\ phase' = "returned"
        /\ UNCHANGED entities

call_finance_pnl ==
    \E o \in ChargeVals, c \in ChargeVals, a \in ChargeVals :
        /\ ret' = Returned("finance_pnl", <<o, c, a>>, finance_pnl(Self, o, c, a))
        /\ phase' = "returned"
        /\ UNCHANGED entities

call_funding_cost_pnl ==
    /\ ret' = Returned("funding_cost_pnl", <<>>, funding_cost_pnl(Self))
    /\ phase' = "returned"
    /\ UNCHANGED entities

call_greek_pnl ==
    \E x \in ArgVals, v \in ChargeVals :
        /\ ret' = Returned("greek_pnl", <<x, v>>, greek_pnl(Self, x, v))
        /\ phase' = "returned"
        /\ UNCHANGED entities

call_carry_pnl ==
    \E r \in ArgVals, h \in ChargeVals :
        /\ ret' = Returned("carry_pnl", <<r, h>>, carry_pnl(Self, r, h))
        /\ phase' = "returned"
        /\ UNCHANGED entities

call_cash_flow_pnl ==
    \E i \in FlowSeqs, o \in FlowSeqs :
        /\ ret' = Returned("cash_flow_pnl", <<i, o>>, cash_flow_pnl(Self, i, o))
        /\ phase' = "returned"
        /\ UNCHANGED entities

call_mark_to_market_pnl ==
    /\ ret' = Returned("mark_to_market_pnl", <<>>, mark_to_market_pnl(Self))
    /\ phase' = "returned"
    /\ UNCHANGED entities

call_mark_to_model_pnl ==
    /\ ret' = Returned("mark_to_model_pnl", <<>>, mark_to_model_pnl(Self))
    /\ phase' = "returned"
    /\ UNCHANGED entities

call_aggregate_greeks_pnl ==
    \E x \in ArgVals, v \in ChargeVals :
        /\ ret' = Returned("aggregate_greeks_pnl", <<x, v>>, aggregate_greeks_pnl(Self, x, v))
        /\ phase' = "returned"
        /\ UNCHANGED entities

\* clean_pnl of the ledger and of the two engines built on a split of its rows:
\* the rows at the positions in A, and the rest.
split_clean_pnl ==
    \E A \in SUBSET (1..NRows(trades)) :
        LET B == (1..NRows(trades)) \ A
            onA == PnLCalculator(SubFrame(trades, A), positions, market_data,
                                 funding_rate, greeks)
            onB == PnLCalculator(SubFrame(trades, B), positions, market_data,
                                 funding_rate, greeks)
        IN /\ ret' = [op |-> "split_clean_pnl", args |-> <<A>>,
                      parts |-> <<clean_pnl(onA), clean_pnl(onB)>>,
                      result |-> clean_pnl(Self)]
           /\ phase' = "returned"
           /\ UNCHANGED entities

\* ------------------------------------------------------------ the inputs

\* All sequences over S of at most n elements.
SeqsUpTo(S, n) == UNION {[1..k -> S] : k \in 0..n}

\* The sample ledger and the sample market data of the source, as written there.
RefTradeRows ==
    <<[buy_price |-> 100, sell_price |-> 110, quantity |-> 10, transaction_cost |-> 1],
      [buy_price |-> 105, sell_price |-> 108, quantity |-> 5, transaction_cost |-> 1]>>
RefMarketRows ==
    <<[current_price |-> 110, previous_price |-> 105,
       model_price |-> 109, previous_model_price |-> 104],
      [current_price |-> 108, previous_price |-> 107,
       model_price |-> 107, previous_model_price |-> 106]>>

\* An integer-valued position book, funding rate and Greek sensitivities. The
\* source's own sample of these is fractional (price changes 0.5 and -0.2, rate
\* 0.02, sensitivities 1.2, 0.5, 0.3) and is not among the inputs drawn here.
BasePositionRows ==
    <<[quantity |-> 10, price_change |-> 4, notional |-> 1000],
      [quantity |-> 15, price_change |-> -2, notional |-> 2000]>>
BaseFundingRate == 3
BaseGreeks == [delta |-> 2, gamma |-> 3, vega |-> -1]

\* A default-indexed frame of the rows.
Table(cols, rows) == Frame(DefaultIndex(Len(rows)), cols, rows)

RefTrades == Table(TradeColumns, RefTradeRows)
BasePositions == Table(PositionColumns, BasePositionRows)
RefMarketData == Table(MarketColumns, RefMarketRows)

TradeRowSet ==
    {[buy_price |-> 100, sell_price |-> 110, quantity |-> 10, transaction_cost |-> 1],
     [buy_price |-> 105, sell_price |-> 108, quantity |-> 5, transaction_cost |-> 1],
     [buy_price |-> 105, sell_price |-> 100, quantity |-> -5, transaction_cost |-> 0],
     [buy_price |-> 100, sell_price |-> 100, quantity |-> 10, transaction_cost |-> 2]}
PositionRowSet ==
    {[quantity |-> 10, price_change |-> 5, notional |-> 1000],
     [quantity |-> -15, price_change |-> 5, notional |-> 2000],
     [quantity |-> 10, price_change |-> -2, notional |-> 2000],
     [quantity |-> 0, price_change |-> -2, notional |-> -1000]}

Constructed == [op |-> "", args |-> <<>>, parts |-> <<>>, result |-> Ok(0)]

\* Ledgers of every shape, against a full and an empty position book.
InitLedger ==
    /\ \E rows \in SeqsUpTo(TradeRowSet, MaxRows) : trades = Table(TradeColumns, rows)
    /\ positions \in {BasePositions, Table(PositionColumns, <<>>)}
    /\ market_data = RefMarketData
    /\ funding_rate = BaseFundingRate
    /\ greeks = BaseGreeks

\* Position books of every shape, under every funding rate.
InitBook ==
    /\ trades = RefTrades
    /\ \E rows \in SeqsUpTo(PositionRowSet, MaxRows) :
           positions = Table(PositionColumns, rows)
    /\ market_data = RefMarketData
    /\ funding_rate \in RateVals
    /\ greeks = BaseGreeks

InitGreeks ==
    /\ trades = RefTrades
    /\ positions = BasePositions
    /\ market_data = RefMarketData
    /\ funding_rate = BaseFundingRate
    /\ greeks \in [GreekKeys -> GreekVals]

\* Every column and key an entity may lack, as <<entity, name>>.
Fields ==
    ({"trades"} \X TradeColumns) \cup ({"positions"} \X PositionColumns)
    \cup ({"market_data"} \X MarketColumns) \cup ({"greeks"} \X GreekKeys)

Kept(entity, names, missing) == {c \in names : <<entity, c>> \notin missing}

\* Entities that lack columns: the constructor takes them as they come.
InitMissing ==
    \E missing \in SUBSET Fields :
        /\ Cardinality(missing) <= MaxMissing
        /\ trades = Table(Kept("trades", TradeColumns, missing), RefTradeRows)
        /\ \E rows \in {BasePositionRows, <<>>} :
               positions = Table(Kept("positions", PositionColumns, missing), rows)
        /\ market_data = Table(Kept("market_data", MarketColumns, missing), RefMarketRows)
        /\ funding_rate = BaseFundingRate
        /\ greeks = [k \in Kept("greeks", GreekKeys, missing) |-> BaseGreeks[k]]

Init ==
    /\ InitLedger \/ InitBook \/ InitGreeks \/ InitMissing
    /\ ret = Constructed
    /\ phase = "constructed"

Next ==
    \/ call_clean_pnl
    \/ call_hypothetical_pnl
    \/ call_books_pnl
    \/ call_gl_pnl
    \/ call_volcker_pnl
    \/ call_finance_pnl
    \/ call_funding_cost_pnl
    \/ call_greek_pnl
    \/ call_carry_pnl
    \/ call_cash_flow_pnl
    \/ call_mark_to_market_pnl
    \/ call_mark_to_model_pnl
    \/ call_aggregate_greeks_pnl
    \/ split_clean_pnl

Spec == Init /\ [][Next]_vars

\* ------------------------------------------------ differently labelled rows

\* Row labels a caller may give either dataset.
LabelVals == {0, 1, 2}

AlignPositionRows ==
    {[quantity |-> 10, price_change |-> 5, notional |-> 1000],
     [quantity |-> -15, price_change |-> -2, notional |-> 2000]}
AlignMarketRows ==
    {[current_price |-> 110, previous_price |-> 105,
      model_price |-> 109, previous_model_price |-> 106],
     [current_price |-> 108, previous_price |-> 107,
      model_price |-> 105, previous_model_price |-> 106]}

\* Every frame of at most MaxRows rows of rowset, labelled from LabelVals.
Frames(cols, rowset) ==
    UNION {{Frame(index, cols, rows) :
                index \in [1..n -> LabelVals], rows \in [1..n -> rowset]} :
           n \in 0..MaxRows}

InitAlign ==
    /\ trades = RefTrades
    /\ positions \in Frames(PositionColumns, AlignPositionRows)
    /\ market_data \in Frames(MarketColumns, AlignMarketRows)
    /\ funding_rate = BaseFundingRate
    /\ greeks = BaseGreeks
    /\ ret = Constructed
    /\ phase = "constructed"

NextAlign ==
    \/ call_mark_to_market_pnl
    \/ call_mark_to_model_pnl

SpecAlign == InitAlign /\ [][NextAlign]_vars

\* ------------------------------------------- the caller changes its datasets

\* The caller rewrites the ledger it handed over; the engine holds the same object.
caller_changes_trades ==
    /\ \E rows \in SeqsUpTo({RefTradeRows[2]}, MaxRows) :
           trades' = Table(TradeColumns, rows)
    /\ trades' # trades
    /\ phase' = "changed"
    /\ UNCHANGED <<positions, market_data, funding_rate, greeks, ret>>

caller_changes_positions ==
    /\ \E rows \in SeqsUpTo({BasePositionRows[2]}, MaxRows) :
           positions' = Table(PositionColumns, rows)
    /\ positions' # positions
    /\ phase' = "changed"
    /\ UNCHANGED <<trades, market_data, funding_rate, greeks, ret>>

InitCaller ==
    /\ trades = RefTrades
    /\ positions = BasePositions
    /\ market_data = RefMarketData
    /\ funding_rate = BaseFundingRate
    /\ greeks = BaseGreeks
    /\ ret = Constructed
    /\ phase = "constructed"

NextCaller ==
    \/ Next
    \/ caller_changes_trades
    \/ caller_changes_positions

SpecCaller == InitCaller /\ [][NextCaller]_vars

\* ------------------------------------------------ the formulas of the claims

Operations ==
    {"clean_pnl", "hypothetical_pnl", "books_pnl", "gl_pnl", "volcker_pnl",
     "finance_pnl", "funding_cost_pnl", "greek_pnl", "carry_pnl", "cash_flow_pnl",
     "mark_to_market_pnl", "mark_to_model_pnl", "aggregate_greeks_pnl"}
MarkOps == {"mark_to_market_pnl", "mark_to_model_pnl"}

\* The sum of a sequence of integers.
RECURSIVE Sigma(_)
Sigma(terms) ==
    IF Len(terms) = 0 THEN 0
    ELSE Sigma(SubSeq(terms, 1, Len(terms) - 1)) + terms[Len(terms)]

Cell(df, c, i) == df.data[c][i]
Min(a, b) == IF a <= b THEN a ELSE b

\* Sum over the ledger of (sell_price - buy_price) * quantity - transaction_cost.
CleanFormula ==
    Sigma([i \in 1..NRows(trades) |->
        (Cell(trades, "sell_price", i) - Cell(trades, "buy_price", i))
            * Cell(trades, "quantity", i) - Cell(trades, "transaction_cost", i)])

\* Sum over the position book of price_change * quantity.
HypotheticalFormula ==
    Sigma([i \in 1..NRows(positions) |->
        Cell(positions, "price_change", i) * Cell(positions, "quantity", i)])

NotionalFormula == Sigma([i \in 1..NRows(positions) |-> Cell(positions, "notional", i)])

\* The two price columns a mark-to-X operation subtracts.
PriceColumns(op) ==
    IF op = "mark_to_market_pnl" THEN <<"current_price", "previous_price">>
    ELSE <<"model_price", "previous_model_price">>

PriceMove(op, i) ==
    Cell(market_data, PriceColumns(op)[1], i) - Cell(market_data, PriceColumns(op)[2], i)

\* Row i of Market Data paired with row i of the Position Book, for i up to n.
PositionalFormula(op, n) ==
    Sigma([i \in 1..n |-> PriceMove(op, i) * Cell(positions, "quantity", i)])

\* Every Market Data row paired with every Position Book row of the same label.
LabelFormula(op) ==
    Sigma([i \in 1..NRows(market_data) |->
        Sigma([j \in 1..NRows(positions) |->
            IF market_data.index[i] = positions.index[j]
            THEN PriceMove(op, i) * Cell(positions, "quantity", j)
            ELSE 0])])

MarkFormula(op) ==
    IF market_data.index = positions.index
    THEN PositionalFormula(op, NRows(positions))
    ELSE LabelFormula(op)

\* delta*x + gamma*x^2/2 + vega*v, over the denominator 2.
GreekFormula(x, v) ==
    [err |-> "",
     num |-> 2 * greeks["delta"] * x + greeks["gamma"] * x * x + 2 * greeks["vega"] * v,
     den |-> 2]

\* The columns and keys the supplied entities carry, as <<entity, name>>.
Present ==
    ({"trades"} \X Columns(trades)) \cup ({"positions"} \X Columns(positions))
    \cup ({"market_data"} \X Columns(market_data)) \cup ({"greeks"} \X DOMAIN greeks)

\* The columns and keys each operation reads.
Reads(op) ==
    CASE op = "clean_pnl" -> {"trades"} \X TradeColumns
      [] op \in {"hypothetical_pnl", "books_pnl", "gl_pnl"} ->
            {"positions"} \X {"price_change", "quantity"}
      [] op = "finance_pnl" ->
            ({"trades"} \X TradeColumns)
            \cup ({"positions"} \X {"price_change", "quantity"})
      [] op \in {"funding_cost_pnl", "carry_pnl"} -> {<<"positions", "notional">>}
      [] op \in {"greek_pnl", "aggregate_greeks_pnl"} -> {"greeks"} \X GreekKeys
      [] op = "mark_to_market_pnl" ->
            {<<"market_data", "current_price">>, <<"market_data", "previous_price">>,
             <<"positions", "quantity">>}
      [] op = "mark_to_model_pnl" ->
            {<<"market_data", "model_price">>, <<"market_data", "previous_model_price">>,
             <<"positions", "quantity">>}
      [] OTHER -> {}

\* The value of each operation's formula on the entities as they stand.
Normal(op, args) ==
    CASE op = "clean_pnl" -> Ok(CleanFormula)
      [] op \in {"hypothetical_pnl", "books_pnl"} -> Ok(HypotheticalFormula)
      [] op = "gl_pnl" ->
            Ok(HypotheticalFormula
               + (IF args.fx_revaluation = <<>> THEN 0 ELSE args.fx_revaluation[1])
               + (IF args.provisions = <<>> THEN 0 ELSE args.provisions[1]))
      [] op = "volcker_pnl" -> Ok(args[1] + args[2] - args[3])
      [] op = "finance_pnl" ->
            Ok(CleanFormula + HypotheticalFormula + args[1] + args[2] + args[3])
      [] op = "funding_cost_pnl" -> Ok(funding_rate * NotionalFormula)
      [] op \in {"greek_pnl", "aggregate_greeks_pnl"} -> GreekFormula(args[1], args[2])
      [] op = "carry_pnl" -> Ok(args[1] * NotionalFormula * args[2])
      [] op = "cash_flow_pnl" -> Ok(Sigma(args[1]) - Sigma(args[2]))
      [] op \in MarkOps -> Ok(MarkFormula(op))

Expected(op, args) ==
    IF Reads(op) \subseteq Present THEN Normal(op, args) ELSE KeyError

\* ------------------------------------------------------------ the claims

Called(op) == phase = "returned" /\ ret.op = op

\* C1: clean_pnl is additive over a split of the ledger: on every split of the
\* ledger's rows into A and the rest, clean_pnl on A plus clean_pnl on the rest is
\* clean_pnl on the whole ledger (and the parts raise exactly when the whole does).
C1_Additivity ==
    ret.op = "split_clean_pnl" =>
        IF ret.result.err = ""
        THEN /\ ret.parts[1].err = "" /\ ret.parts[2].err = ""
             /\ ret.parts[1].num + ret.parts[2].num = ret.result.num
             /\ ret.result.num = CleanFormula
        ELSE ret.parts[1].err # "" /\ ret.parts[2].err # ""

\* C1's case: a ledger of two records split into one record each, every part's
\* clean_pnl nonzero.
C1_Witness ==
    /\ ret.op = "split_clean_pnl"
    /\ NRows(trades) = 2
    /\ ret.args[1] = {1}
    /\ ret.result.err = ""
    /\ ret.parts[1].num # 0 /\ ret.parts[2].num # 0

\* C3: finance_pnl(o, c, a) is clean_pnl() + hypothetical_pnl() + o + c + a on the
\* entities the engine holds at the call; it raises exactly when one of the two does.
C3_FinanceComposite ==
    Called("finance_pnl") =>
        LET clean == clean_pnl(Self)
            hypothetical == hypothetical_pnl(Self)
        IN IF clean.err = "" /\ hypothetical.err = ""
           THEN ret.result =
                    Ok(clean.num + hypothetical.num
                       + ret.args[1] + ret.args[2] + ret.args[3])
           ELSE ret.result.err # ""

\* C3's case: finance_pnl returned a number on a ledger and a book whose two
\* PnLs are nonzero, with adjustments that do not cancel.
C3_Witness ==
    /\ Called("finance_pnl")
    /\ ret.result.err = ""
    /\ clean_pnl(Self).num # 0 /\ hypothetical_pnl(Self).num # 0
    /\ ret.args = <<2, -1, 2>>

\* C4: gl_pnl(fx, prov) is books_pnl() + fx + prov, an argument left out counting
\* as 0, so that gl_pnl() is books_pnl(); it raises exactly when books_pnl does.
C4_GlComposite ==
    Called("gl_pnl") =>
        LET books == books_pnl(Self)
            fx == IF ret.args.fx_revaluation = <<>> THEN 0 ELSE ret.args.fx_revaluation[1]
            prov == IF ret.args.provisions = <<>> THEN 0 ELSE ret.args.provisions[1]
        IN /\ books.err = "" => ret.result = Ok(books.num + fx + prov)
           /\ books.err # "" => ret.result = books
           /\ ret.args.fx_revaluation = <<>> /\ ret.args.provisions = <<>>
                  => ret.result = books

\* C4's case: gl_pnl() called with both arguments left out on a book whose
\* books_pnl is nonzero.
C4_Witness ==
    /\ Called("gl_pnl")
    /\ ret.args = [fx_revaluation |-> <<>>, provisions |-> <<>>]
    /\ ret.result.err = "" /\ ret.result.num # 0

\* C5 as stated: whenever greek_pnl(x, v) equals greek_pnl(-x, v), delta is 0.
C5_Original ==
    Called("greek_pnl") /\ ret.result.err = ""
        /\ ret.result = greek_pnl(Self, -ret.args[1], ret.args[2])
    => greeks["delta"] = 0

\* C5, amended: greek_pnl(x, v) equals greek_pnl(-x, v) exactly when delta is 0 or
\* x is 0.
C5_GreekSymmetry ==
    Called("greek_pnl") /\ ret.result.err = "" =>
        ((ret.result = greek_pnl(Self, -ret.args[1], ret.args[2]))
            <=> (greeks["delta"] = 0 \/ ret.args[1] = 0))

\* C5's case: delta is 0, gamma is not, and greek_pnl was called with x # 0.
C5_Witness ==
    /\ Called("greek_pnl") /\ ret.result.err = ""
    /\ greeks["delta"] = 0 /\ greeks["gamma"] # 0 /\ greeks["vega"] # 0
    /\ ret.args[1] # 0

ZeroOps == {"hypothetical_pnl", "books_pnl", "funding_cost_pnl", "carry_pnl"}

\* C6 as stated: on a position book of zero records the four operations return 0
\* and raise nothing.
C6_Original ==
    phase = "returned" /\ ret.op \in ZeroOps /\ NRows(positions) = 0
    => ret.result = Ok(0)

\* C6, amended: on a position book of zero records that carries the columns the
\* operation reads, the four operations return exactly 0; on one that lacks such a
\* column they raise KeyError.
C6_EmptyBookIsZero ==
    phase = "returned" /\ ret.op \in ZeroOps /\ NRows(positions) = 0
    => ret.result = (IF Reads(ret.op) \subseteq Present THEN Ok(0) ELSE KeyError)

\* C6's case: carry_pnl(r, h) with r and h nonzero returned on an empty position
\* book that carries its columns, under a nonzero funding rate.
C6_Witness ==
    /\ Called("carry_pnl")
    /\ NRows(positions) = 0
    /\ PositionColumns \subseteq Columns(positions)
    /\ funding_rate # 0
    /\ ret.args[1] # 0 /\ ret.args[2] # 0
    /\ ret.result = Ok(0)

\* C7: a missing column is not detected at construction; an operation raises
\* KeyError exactly when it reads a column (or key) the entities lack, and
\* otherwise returns the value of its formula.
C7_MissingColumn ==
    /\ phase = "constructed" => ret = Constructed
    /\ phase = "returned" /\ ret.op \in Operations
           => ret.result = Expected(ret.op, ret.args)

\* C7's case: the position book lacks notional, and carry_pnl raised KeyError.
C7_Witness ==
    /\ <<"positions", "notional">> \notin Present
    /\ {"price_change", "quantity"} \subseteq Columns(positions)
    /\ Called("carry_pnl")
    /\ ret.result = KeyError

ExpectedNow == Expected(ret.op, ret.args)

\* C8: no hidden state. Every call returns the value of its formula on the
\* entities as they are at that call, whatever was called before and whatever the
\* caller changed since; a call repeated with no change in between returns the
\* same result.
C8_NoHiddenState ==
    [][phase' = "returned" /\ ret'.op \in Operations =>
          /\ ret'.result = ExpectedNow'
          /\ (phase = "returned" /\ ret.op = ret'.op /\ ret.args = ret'.args
                => ret'.result = ret.result)]_vars

\* C8's case: gl_pnl returned after the caller emptied the position book under
\* an engine built on a book of two records.
C8_Witness ==
    /\ Called("gl_pnl")
    /\ NRows(positions) = 0
    /\ ret.result = Ok(-1)

\* C9: no operation changes what the engine holds: every step of the engine
\* leaves the ledger, the position book, the market data, the funding rate and
\* the Greeks as they were supplied; cash_flow_pnl and volcker_pnl return a
\* function of their arguments alone, whatever the entities hold or lack.
C9_Frame ==
    /\ [][UNCHANGED entities]_vars
    /\ [](Called("cash_flow_pnl")
            => ret.result = Ok(Sigma(ret.args[1]) - Sigma(ret.args[2])))
    /\ [](Called("volcker_pnl")
            => ret.result = Ok(ret.args[1] + ret.args[2] - ret.args[3]))

\* C9's case: a call that failed (hypothetical_pnl on a position book lacking a
\* column it reads) has returned.
C9_Witness ==
    /\ Called("hypothetical_pnl")
    /\ ret.result = KeyError

DefaultIndexed(df) == df.index = DefaultIndex(NRows(df))

\* C2 as stated: with different row counts the mark-to-X operations fail.
C2_Original ==
    phase = "returned" /\ ret.op \in MarkOps
        /\ NRows(positions) # NRows(market_data)
    => ret.result.err # ""

\* C2, amended: with different row counts the mark-to-X operations raise nothing
\* and return a number: rows are matched by label and a row whose label the other
\* dataset lacks is skipped, so two default-indexed datasets give the sum over
\* the rows both have, and datasets with no label in common give 0.
C2_RowCountMismatch ==
    phase = "returned" /\ ret.op \in MarkOps
        /\ NRows(positions) # NRows(market_data)
    => /\ ret.result.err = ""
       /\ ret.result.den = 1
       /\ DefaultIndexed(positions) /\ DefaultIndexed(market_data)
            => ret.result.num =
                   PositionalFormula(ret.op, Min(NRows(positions), NRows(market_data)))
       /\ Labels(positions.index) \cap Labels(market_data.index) = {}
            => ret.result.num = 0

\* C2's case: two default-indexed datasets, two market rows and one position,
\* and a nonzero mark_to_market_pnl.
C2_Witness ==
    /\ Called("mark_to_market_pnl")
    /\ DefaultIndexed(positions) /\ DefaultIndexed(market_data)
    /\ NRows(market_data) = 2 /\ NRows(positions) = 1
    /\ ret.result.err = "" /\ ret.result.num # 0

\* C10 as stated: with equal row counts the mark-to-X operations pair row i with
\* row i whatever the labels.
C10_Original ==
    phase = "returned" /\ ret.op \in MarkOps
        /\ NRows(positions) = NRows(market_data)
    => ret.result = Ok(PositionalFormula(ret.op, NRows(positions)))

\* C10, amended: the mark-to-X operations pair row i with row i when the two
\* datasets carry the same labels in the same order (as two default-indexed
\* datasets of equal row count do); otherwise they pair every Market Data row
\* with every Position Book row of the same label.
C10_MarkPairing ==
    phase = "returned" /\ ret.op \in MarkOps
    => ret.result =
           Ok(IF market_data.index = positions.index
              THEN PositionalFormula(ret.op, NRows(positions))
              ELSE LabelFormula(ret.op))

\* C10's case: two rows each, the same labels in opposite order, and a
\* mark_to_model_pnl that differs from the row-by-row sum.
C10_Witness ==
    /\ Called("mark_to_model_pnl")
    /\ market_data.index = <<0, 1>> /\ positions.index = <<1, 0>>
    /\ ret.result.num # PositionalFormula(ret.op, 2)

====
